---- MODULE Spec2Model ----
(***************************************************************************)
(* build_smooth_normals of examples/torus.rs: the vertex/normal buffer it  *)
(* fills, its two loops, the u32 slot arithmetic and the f32 arithmetic of *)
(* the face normals (IEEE 754 binary32, round to nearest, ties to even).   *)
(***************************************************************************)
EXTENDS Integers, Sequences, FiniteSets

(***************************************************************************)
(* f32.  A value is a record [k, s, m, e]:                                 *)
(*   k = "fin": (-1)^s * m * 2^e, with 2^23 <= m < 2^24 (normal), or       *)
(*              m < 2^23 and e = EMin (subnormal, zero);                   *)
(*   k = "inf": signed infinity;  k = "nan": the one NaN of the model.     *)
(***************************************************************************)
MantBits == 24
EMin == -149
EMax == 104

\* The powers of two below 2^31, tabulated.
Powers == [n \in 0..30 |-> 2 ^ n]

Pow2(n) == Powers[n]

Mant == Pow2(MantBits)

HalfMant == Pow2(MantBits - 1)

NaN == [k |-> "nan", s |-> 0, m |-> 0, e |-> 0]

Inf(s) == [k |-> "inf", s |-> s, m |-> 0, e |-> 0]

Zero(s) == [k |-> "fin", s |-> s, m |-> 0, e |-> EMin]

Fin(s, m, e) == [k |-> "fin", s |-> s, m |-> m, e |-> e]

IsZero(x) == x.k = "fin" /\ x.m = 0

\* The number of bits of a natural number below 2^31, by halving the range.
BitLen4(M) == IF M >= 8 THEN 4 ELSE IF M >= 4 THEN 3 ELSE IF M >= 2 THEN 2 ELSE M

BitLen8(M) == IF M >= 16 THEN 4 + BitLen4(M \div 16) ELSE BitLen4(M)

BitLen16(M) == IF M >= 256 THEN 8 + BitLen8(M \div 256) ELSE BitLen8(M)

BitLen(M) == IF M >= 65536 THEN 16 + BitLen16(M \div 65536) ELSE BitLen16(M)

\* q, the quotient of a division by 2^sh whose remainder is r, rounded to
\* nearest, ties to even; sticky: the dividend had a further nonzero fraction.
RoundDiv(q, r, half, sticky) ==
    IF r > half \/ (r = half /\ (sticky \/ (q % 2) = 1)) THEN q + 1 ELSE q

\* M / 2^sh rounded to an integer (M < 2^31, sh > 0).
Rounded(M, sh, sticky) ==
    IF sh >= 32 THEN 0
    ELSE IF sh = 31 THEN RoundDiv(0, M, Pow2(30), sticky)
    ELSE RoundDiv(M \div Pow2(sh), M % Pow2(sh), Pow2(sh - 1), sticky)

\* The value with significand m <= 2^24 and exponent e: a carry out of the
\* significand renormalises, an exponent above EMax overflows to infinity.
Finish(s, m, e) ==
    IF m = Mant THEN (IF e + 1 > EMax THEN Inf(s) ELSE Fin(s, HalfMant, e + 1))
    ELSE IF e > EMax THEN Inf(s)
    ELSE Fin(s, m, e)

\* The right shift (left shift, if negative) that brings a significand of L
\* bits at exponent E to 24 bits, or to exponent EMin if that comes first.
Shift(L, E) == IF L - MantBits > EMin - E THEN L - MantBits ELSE EMin - E

Pack(s, M, E, sticky, sh) ==
    IF M = 0 /\ ~sticky THEN Zero(s)
    ELSE IF sh > 0 THEN Finish(s, Rounded(M, sh, sticky), E + sh)
    ELSE Finish(s, M * Pow2(0 - sh), E + sh)

\* The f32 nearest to (-1)^s * (M + t) * 2^E, where 0 < t < 1 when sticky and
\* t = 0 otherwise: ties to even, overflow to infinity, gradual underflow.
RoundPack(s, M, E, sticky) == Pack(s, M, E, sticky, Shift(BitLen(M), E))

F32Neg(x) == IF x.k = "nan" THEN x ELSE [x EXCEPT !.s = 1 - x.s]

\* y's significand aligned to x's exponent less three guard bits (d = x.e - y.e).
Aligned(m, d) ==
    IF d <= 3 THEN m * Pow2(3 - d)
    ELSE IF d - 3 > MantBits THEN 0
    ELSE m \div Pow2(d - 3)

\* Whether that alignment shifted nonzero bits out.
Lost(m, d) ==
    IF d <= 3 THEN FALSE
    ELSE IF d - 3 > MantBits THEN TRUE
    ELSE (m % Pow2(d - 3)) # 0

\* The sum of the aligned significands M1 (of sign s1) and M2 (of sign s2).
AddAligned(s1, M1, s2, M2, E, lost) ==
    IF s1 = s2 THEN RoundPack(s1, M1 + M2, E, lost)
    ELSE IF M1 >= M2
         THEN RoundPack(IF M1 = M2 THEN 0 ELSE s1,
                        IF lost THEN M1 - M2 - 1 ELSE M1 - M2, E, lost)
         ELSE RoundPack(s2, M2 - M1, E, FALSE)

\* x + y of two finite nonzero values, x the one with the larger exponent.
AddFinite(x, y) ==
    AddAligned(x.s, x.m * 8, y.s, Aligned(y.m, x.e - y.e), x.e - 3,
               Lost(y.m, x.e - y.e))

F32Add(x, y) ==
    IF x.k = "nan" \/ y.k = "nan" THEN NaN
    ELSE IF x.k = "inf" THEN (IF y.k = "inf" /\ y.s # x.s THEN NaN ELSE x)
    ELSE IF y.k = "inf" THEN y
    ELSE IF IsZero(x) /\ IsZero(y) THEN (IF x.s = y.s THEN x ELSE Zero(0))
    ELSE IF IsZero(x) THEN y
    ELSE IF IsZero(y) THEN x
    ELSE AddFinite(IF x.e >= y.e THEN x ELSE y, IF x.e >= y.e THEN y ELSE x)

F32Sub(x, y) == F32Add(x, F32Neg(y))

\* The 48-bit number hi * 2^24 + low to f32, at exponent E.
PackWide(s, hi, low, E) ==
    RoundPack(s, hi * Pow2(7) + (low \div Pow2(17)), E + 17, (low % Pow2(17)) # 0)

\* The 48-bit product from its 12-bit limbs: h1 * h2, the cross terms, l1 * l2.
MulLimbs(s, hh, mid, lo, B, E) ==
    PackWide(s, hh + ((mid + (lo \div B)) \div B),
             ((mid + (lo \div B)) % B) * B + (lo % B), E)

\* The product of two 24-bit significands.
MulFinite(s, m1, m2, B, E) ==
    MulLimbs(s, (m1 \div B) * (m2 \div B),
             (m1 \div B) * (m2 % B) + (m1 % B) * (m2 \div B),
             (m1 % B) * (m2 % B), B, E)

\* The product of two finite nonzero values, their significands brought to
\* 24 bits by n1 and n2 places.
MulNormal(s, x, n1, y, n2) ==
    MulFinite(s, x.m * Pow2(n1), y.m * Pow2(n2), Pow2(MantBits \div 2),
              (x.e - n1) + (y.e - n2))

F32Mul(x, y) ==
    IF x.k = "nan" \/ y.k = "nan" THEN NaN
    ELSE IF x.k = "inf" \/ y.k = "inf"
         THEN (IF IsZero(x) \/ IsZero(y) THEN NaN ELSE Inf((x.s + y.s) % 2))
    ELSE IF IsZero(x) \/ IsZero(y) THEN Zero((x.s + y.s) % 2)
    ELSE MulNormal((x.s + y.s) % 2, x, MantBits - BitLen(x.m),
                   y, MantBits - BitLen(y.m))

(***************************************************************************)
(* cgmath::Vector3<f32>                                                    *)
(***************************************************************************)
vec3(x, y, z) == [x |-> x, y |-> y, z |-> z]

VecAdd(a, b) == vec3(F32Add(a.x, b.x), F32Add(a.y, b.y), F32Add(a.z, b.z))

VecSub(a, b) == vec3(F32Sub(a.x, b.x), F32Sub(a.y, b.y), F32Sub(a.z, b.z))

cross(a, b) ==
    vec3(F32Sub(F32Mul(a.y, b.z), F32Mul(a.z, b.y)),
         F32Sub(F32Mul(a.z, b.x), F32Mul(a.x, b.z)),
         F32Sub(F32Mul(a.x, b.y), F32Mul(a.y, b.x)))

ZeroVec == vec3(Zero(0), Zero(0), Zero(0))

(***************************************************************************)
(* u32 and usize.  A number is a record [hi, lo] standing for              *)
(* hi * 2^16 + lo with lo < 2^16; a u32 has hi < 2^16 as well.             *)
(***************************************************************************)
U32Bits == 32

Limb == Pow2(U32Bits \div 2)

Num(n) == [hi |-> n \div Limb, lo |-> n % Limb]

NumLess(a, b) == a.hi < b.hi \/ (a.hi = b.hi /\ a.lo < b.lo)

\* indices[i+j]*2 + 1 in u32: the wrapped value, and whether it overflowed.
SlotU32(idx) ==
    LET lo2 == idx.lo * 2 + 1
        hi2 == idx.hi * 2 + (lo2 \div Limb)
    IN  [hi |-> hi2 % Limb, lo |-> lo2 % Limb, overflow |-> hi2 >= Limb]

(***************************************************************************)
(* build_smooth_normals.  Sequences are 1-based: vertices[k + 1] is the    *)
(* source's vertices[k].                                                   *)
(***************************************************************************)
\* A first loop that pushes each normal before its vertex.
RECURSIVE PushAllNormalFirst(_, _)
PushAllNormalFirst(vs, out) ==
    IF vs = << >> THEN out
    ELSE PushAllNormalFirst(Tail(vs), Append(Append(out, ZeroVec), Head(vs)))

\* A first loop that starts each normal at the vertex instead of at zero.
RECURSIVE PushAllVertexAsNormal(_, _)
PushAllVertexAsNormal(vs, out) ==
    IF vs = << >> THEN out
    ELSE PushAllVertexAsNormal(Tail(vs), Append(Append(out, Head(vs)), Head(vs)))

\* The first loop: every vertex is pushed, followed by a zero normal.
RECURSIVE PushAll(_, _)
PushAll(vs, out) ==
    IF vs = << >> THEN out
    ELSE PushAll(Tail(vs), Append(Append(out, Head(vs)), ZeroVec))

RECURSIVE Accumulate(_, _, _, _, _, _)
\* An assignment output[slot] = n, which forgets what the slot held.
AddAtAssign(idx, out, i, j, n, checks, r, slot) ==
    IF r.overflow /\ checks THEN [output |-> out, panic |-> "overflow"]
    ELSE IF slot >= Len(out) THEN [output |-> out, panic |-> "output"]
    ELSE Accumulate(idx, [out EXCEPT ![slot + 1] = n], i, j + 1, n, checks)

\* output[slot] = output[slot] + n, for the u32 r that indices[i+j]*2 + 1 gave.
AddAt(idx, out, i, j, n, checks, r, slot) ==
    IF r.overflow /\ checks THEN [output |-> out, panic |-> "overflow"]
    ELSE IF slot >= Len(out) THEN [output |-> out, panic |-> "output"]
    ELSE Accumulate(idx, [out EXCEPT ![slot + 1] = VecAdd(out[slot + 1], n)],
                    i, j + 1, n, checks)

\* The u32 r as a usize.
AsUsize(r) == r.hi * Limb + r.lo

\* The inner loop, for j in 0..3, from corner j on.
Accumulate(idx, out, i, j, n, checks) ==
    IF j = 3 THEN [output |-> out, panic |-> "none"]
    ELSE AddAt(idx, out, i, j, n, checks, SlotU32(Num(idx[i + j + 1])),
               AsUsize(SlotU32(Num(idx[i + j + 1]))))

\* A face normal of the other orientation: (v2 - v0).cross(v1 - v0).
FaceNormalFlipped(v0, v1, v2) == cross(VecSub(v2, v0), VecSub(v1, v0))

\* A face normal that takes v2 from the origin: (v1 - v0).cross(v2).
FaceNormalFromOrigin(v0, v1, v2) == cross(VecSub(v1, v0), v2)

\* let n = (v1 - v0).cross(v2 - v0).
FaceNormal(v0, v1, v2) == cross(VecSub(v1, v0), VecSub(v2, v0))

\* An iteration that skips a group it cannot read in full, or whose indices
\* do not all name a vertex, instead of panicking.
TriangleSkipping(vs, idx, out, i, checks) ==
    IF i + 2 >= Len(idx) THEN [output |-> out, panic |-> "none"]
    ELSE IF \E j \in 1..3 : idx[i + j] >= Len(vs) THEN [output |-> out, panic |-> "none"]
    ELSE Accumulate(idx, out, i, 0,
                    FaceNormal(vs[idx[i + 1] + 1], vs[idx[i + 2] + 1],
                               vs[idx[i + 3] + 1]),
                    checks)

\* One iteration of the second loop, for the group that starts at indices[i].
Triangle(vs, idx, out, i, checks) ==
    IF idx[i + 1] >= Len(vs) THEN [output |-> out, panic |-> "vertices"]
    ELSE IF i + 1 >= Len(idx) THEN [output |-> out, panic |-> "indices"]
    ELSE IF idx[i + 2] >= Len(vs) THEN [output |-> out, panic |-> "vertices"]
    ELSE IF i + 2 >= Len(idx) THEN [output |-> out, panic |-> "indices"]
    ELSE IF idx[i + 3] >= Len(vs) THEN [output |-> out, panic |-> "vertices"]
    ELSE Accumulate(idx, out, i, 0,
                    FaceNormal(vs[idx[i + 1] + 1], vs[idx[i + 2] + 1],
                               vs[idx[i + 3] + 1]),
                    checks)

\* The second loop from offset i on: range_step(0, indices.len(), 3).
RECURSIVE Loop(_, _, _, _, _)
LoopOn(vs, idx, r, i, checks) ==
    IF r.panic # "none" THEN [output |-> r.output, panic |-> r.panic, i |-> i]
    ELSE Loop(vs, idx, r.output, i + 3, checks)

Loop(vs, idx, out, i, checks) ==
    IF i >= Len(idx) THEN [output |-> out, panic |-> "none", i |-> i]
    ELSE LoopOn(vs, idx, Triangle(vs, idx, out, i, checks), i, checks)

build_smooth_normals(vs, idx, out, checks) ==
    Loop(vs, idx, PushAll(vs, out), 0, checks)

(***************************************************************************)
(* The program's state.                                                    *)
(***************************************************************************)
VARIABLES
    vertices,   \* the vertices argument of the call in progress
    indices,    \* its indices argument
    output,     \* the buffer the calls fill
    entry,      \* output as it was when the call in progress began
    pc,         \* "idle", "push", "loop", "done" or "panic"
    i,          \* the second loop's variable
    panic,      \* what the call panicked on, or "none"
    calls,      \* calls begun so far
    checks,     \* whether the build checks integer overflow (debug) or wraps
    corner      \* one corner of a mesh too large to list: see SpecSlot

vars == <<vertices, indices, output, entry, pc, i, panic, calls, checks, corner>>

(***************************************************************************)
(* Inputs.                                                                 *)
(***************************************************************************)
MaxVerts == 3
MaxIndices == 4

\* The f32 of an integer below 2^31 in magnitude.
FromInt(n) == IF n < 0 THEN RoundPack(1, 0 - n, 0, FALSE) ELSE RoundPack(0, n, 0, FALSE)

\* Points in general position (no three on a line, no four in a plane) whose
\* coordinates have enough digits for the products of the cross product to
\* be rounded.
Point(k) == vec3(FromInt(4097 * k), FromInt(4099 * k * k), FromInt(4111 * k * k * k))

\* x * 2^n for a finite nonzero x of exponent below EMax - n: exact.
Ldexp(x, n) == IF IsZero(x) THEN x ELSE [x EXCEPT !.e = x.e + n]

\* The same points 2^n times as far out.
FarPoint(k, n) == vec3(Ldexp(Point(k).x, n), Ldexp(Point(k).y, n), Ldexp(Point(k).z, n))

SeqsUpTo(S, n) == UNION {[1..m -> S] : m \in 0..n}

VertexArrays == {[k \in 1..n |-> Point(k - 1)] : n \in 0..MaxVerts}

IndexSeqs == SeqsUpTo(0..MaxVerts, MaxIndices)

\* Meshes of four vertices: three of the points and a fourth far out (its
\* differences from the others are finite, the products of two of them are
\* not), and up to MaxTris triangles over them, degenerate ones included,
\* each listed from its lowest vertex.
MaxTris == 2
FarOut == 97

Cloud == [k \in 1..4 |-> IF k < 4 THEN Point(k - 1) ELSE FarPoint(k - 1, FarOut)]

Flatten(ts) == [k \in 1..(3 * Len(ts)) |-> ts[(k + 2) \div 3][((k - 1) % 3) + 1]]

Triples(n) == {t \in [1..3 -> 0..(n - 1)] : t[1] <= t[2] /\ t[1] <= t[3]}

\* Those with three different corners.
ProperTriples(n) == {t \in Triples(n) : t[1] # t[2] /\ t[1] # t[3] /\ t[2] # t[3]}

TriangleLists(n, T, t) == {Flatten(ts) : ts \in SeqsUpTo(T, t)}

MaxProperTris == 3

(***************************************************************************)
(* The steps of a call.                                                    *)
(***************************************************************************)
\* No corner of a large mesh is being looked at.
NoCorner == [len |-> Num(0), idx |-> Num(0), slot |-> Num(0)]

Begin(vs, idx, chk) ==
    /\ vertices = vs
    /\ indices = idx
    /\ output = << >>
    /\ entry = << >>
    /\ pc = "push"
    /\ i = 0
    /\ panic = "none"
    /\ calls = 1
    /\ checks = chk
    /\ corner = NoCorner

\* main's call, on an empty buffer, in a dev or a release build.
Init == \E vs \in VertexArrays, idx \in IndexSeqs, chk \in BOOLEAN : Begin(vs, idx, chk)

\* for &v in vertices.iter() { output.push(v); output.push(vec3(0.0, 0.0, 0.0)); }
Push ==
    /\ pc = "push"
    /\ output' = PushAll(vertices, output)
    /\ pc' = "loop"
    /\ i' = 0
    /\ UNCHANGED <<vertices, indices, entry, panic, calls, checks, corner>>

\* The state after an iteration that gave r: the next group, or the panic.
StepTo(r) ==
    /\ output' = r.output
    /\ panic' = r.panic
    /\ pc' = IF r.panic = "none" THEN "loop" ELSE "panic"
    /\ i' = IF r.panic = "none" THEN i + 3 ELSE i

\* One iteration of for i in range_step(0, indices.len(), 3).
Step ==
    /\ pc = "loop"
    /\ i < Len(indices)
    /\ StepTo(Triangle(vertices, indices, output, i, checks))
    /\ UNCHANGED <<vertices, indices, entry, calls, checks, corner>>

\* The loop is over and the function returns.
Return ==
    /\ pc = "loop"
    /\ i >= Len(indices)
    /\ pc' = "done"
    /\ UNCHANGED <<vertices, indices, output, entry, i, panic, calls, checks, corner>>

Next == Push \/ Step \/ Return

Spec == Init /\ [][Next]_vars

\* The arguments of the calls of a sequence: some of the points, and up to
\* MaxCallTris triangles over them.
MaxCallTris == 1

CallArgs ==
    {<<vs, idx>> : vs \in VertexArrays,
                   idx \in TriangleLists(MaxVerts, Triples(MaxVerts), MaxCallTris)}

ValidArgs == {a \in CallArgs : \A k \in 1..Len(a[2]) : a[2][k] < Len(a[1])}

MaxCalls == 2

\* Before the first call of a sequence: let mut vertices_with_normals = vec![].
InitCalls ==
    /\ vertices = << >>
    /\ indices = << >>
    /\ output = << >>
    /\ entry = << >>
    /\ pc = "idle"
    /\ i = 0
    /\ panic = "none"
    /\ calls = 0
    /\ checks = TRUE
    /\ corner = NoCorner

\* build_smooth_normals(&vs, &idx, &mut output) is called on the buffer as
\* the calls before it left it.
Call(vs, idx) ==
    /\ pc \in {"idle", "done"}
    /\ calls < MaxCalls
    /\ vertices' = vs
    /\ indices' = idx
    /\ entry' = output
    /\ pc' = "push"
    /\ i' = 0
    /\ calls' = calls + 1
    /\ UNCHANGED <<output, panic, checks, corner>>

NextCalls == (\E a \in ValidArgs : Call(a[1], a[2])) \/ Push \/ Step \/ Return

SpecCalls == InitCalls /\ [][NextCalls]_vars

\* Indices and lengths about where indices[i+j]*2 stops fitting a u32.
Edges == {0, 1, Limb \div 2 - 1, Limb \div 2, Limb - 1}

Nums == {[hi |-> h, lo |-> l] : h \in Edges \cup {Limb}, l \in {0, 1, Limb - 1}}

\* 2 * n, the length of the output of n vertices, as a usize.
Twice(n) == [hi |-> 2 * n.hi + ((2 * n.lo) \div Limb), lo |-> (2 * n.lo) % Limb]

\* The inner loop is at a corner whose index is idx, in a call on len
\* vertices, in a dev or a release build, idx being an index of the mesh.
InitSlot ==
    \E len \in Nums, idx \in Nums, chk \in BOOLEAN :
        /\ NumLess(idx, len)
        /\ idx.hi < Limb
        /\ corner = [len |-> len, idx |-> idx, slot |-> Num(0)]
        /\ vertices = << >>
        /\ indices = << >>
        /\ output = << >>
        /\ entry = << >>
        /\ pc = "index"
        /\ i = 0
        /\ panic = "none"
        /\ calls = 1
        /\ checks = chk

\* (indices[i+j]*2 + 1) as usize
Index ==
    /\ pc = "index"
    /\ corner' = [corner EXCEPT !.slot = [hi |-> SlotU32(corner.idx).hi,
                                          lo |-> SlotU32(corner.idx).lo]]
    /\ panic' = IF SlotU32(corner.idx).overflow /\ checks THEN "overflow" ELSE "none"
    /\ pc' = IF SlotU32(corner.idx).overflow /\ checks THEN "panic" ELSE "add"
    /\ UNCHANGED <<vertices, indices, output, entry, i, calls, checks>>

\* output[..] = output[..] + n, the output holding two entries a vertex.
Add ==
    /\ pc = "add"
    /\ panic' = IF NumLess(corner.slot, Twice(corner.len)) THEN "none" ELSE "output"
    /\ pc' = IF NumLess(corner.slot, Twice(corner.len)) THEN "added" ELSE "panic"
    /\ UNCHANGED <<vertices, indices, output, entry, i, calls, checks, corner>>

NextSlot == Index \/ Add

SpecSlot == InitSlot /\ [][NextSlot]_vars

\* The call on a mesh of the cloud.  No index of it comes near 2^31, so the
\* build's overflow checks cannot matter: the dev profile's are taken.
InitMesh == \E idx \in TriangleLists(Len(Cloud), Triples(Len(Cloud)), MaxTris) : Begin(Cloud, idx, TRUE)

SpecMesh == InitMesh /\ [][Next]_vars

\* The call on a mesh of up to MaxProperTris proper triangles of the cloud.
InitProper == \E idx \in TriangleLists(Len(Cloud), ProperTriples(Len(Cloud)), MaxProperTris) : Begin(Cloud, idx, TRUE)

SpecProper == InitProper /\ [][Next]_vars

(***************************************************************************)
(* What the claims speak of.                                               *)
(***************************************************************************)
\* The normal stored for vertex v (0-based) in a buffer filled from empty.
NormalOf(out, v) == out[2 * v + 2]

\* The positions of indices (1-based) that hold no vertex's index.
BadPositions == {k \in 1..Len(indices) : indices[k] >= Len(vertices)}

\* The offset of the group that holds the first such position.
FirstBadGroup == 3 * (((CHOOSE k \in BadPositions : \A l \in BadPositions : k <= l) - 1) \div 3)

\* The number of indices in complete groups of three.
CompleteLen == 3 * (Len(indices) \div 3)

\* The raw cross product (v1 - v0) x (v2 - v0) of the group at offset t of idx.
RawNormal(vs, idx, t) ==
    cross(VecSub(vs[idx[t + 2] + 1], vs[idx[t + 1] + 1]),
          VecSub(vs[idx[t + 3] + 1], vs[idx[t + 1] + 1]))

\* The sum, over the corners at positions 1..k of idx that name vertex v, of
\* their triangles' raw normals, added in the order of the positions.
RECURSIVE CornerSum(_, _, _, _)
CornerSum(vs, idx, v, k) ==
    IF k = 0 THEN ZeroVec
    ELSE IF idx[k] = v
         THEN VecAdd(CornerSum(vs, idx, v, k - 1), RawNormal(vs, idx, 3 * ((k - 1) \div 3)))
         ELSE CornerSum(vs, idx, v, k - 1)

\* C2: a call on an empty output leaves 2*V entries, entry 2*i the vertex i
\* unchanged (entry 2*i+1 its normal), whatever indices holds; the layout is
\* there from the end of the first loop on, also when the second loop panics.
C2_Layout ==
    (entry = << >> /\ pc \in {"loop", "done", "panic"}) =>
        /\ Len(output) = 2 * Len(vertices)
        /\ \A k \in 1..Len(vertices) : output[2 * k - 1] = vertices[k]

C2_Witness ==
    /\ pc = "done"
    /\ Len(vertices) = 3
    /\ indices = <<0, 1, 2>>
    /\ \A v \in 0..2 : NormalOf(output, v) # ZeroVec

\* C4: with an index >= vertices.len() in indices the call never returns; the
\* loop never passes the group holding the first such index, and the panic is
\* the out-of-bounds read of vertices in that group.
C4_OutOfBounds ==
    BadPositions # {} =>
        /\ pc # "done"
        /\ pc = "loop" => i <= FirstBadGroup
        /\ pc = "panic" => (panic = "vertices" /\ i = FirstBadGroup)

C4_Witness ==
    /\ pc = "panic"
    /\ panic = "vertices"
    /\ i = 3
    /\ BadPositions = {4}
    /\ NormalOf(output, 0) # ZeroVec

\* C10 as stated: with indices.len() not a multiple of 3 the call never
\* returns, and its panic is the out-of-bounds read of indices[i+1] or
\* indices[i+2] in the last, incomplete group, all complete groups before it
\* accumulated.
C10_AsStated ==
    Len(indices) % 3 # 0 =>
        /\ pc # "done"
        /\ pc = "panic" =>
              /\ panic = "indices"
              /\ i = CompleteLen
              /\ \A v \in 0..(Len(vertices) - 1) :
                    NormalOf(output, v) = CornerSum(vertices, indices, v, CompleteLen)

\* C10, amended: the same, for indices that all name a vertex.
C10_Trailing ==
    (Len(indices) % 3 # 0 /\ BadPositions = {}) =>
        /\ pc # "done"
        /\ pc = "loop" => i <= CompleteLen
        /\ pc = "panic" =>
              /\ panic = "indices"
              /\ i = CompleteLen
              /\ \A v \in 0..(Len(vertices) - 1) :
                    NormalOf(output, v) = CornerSum(vertices, indices, v, CompleteLen)

C10_Witness ==
    /\ pc = "panic"
    /\ panic = "indices"
    /\ Len(indices) = 4
    /\ BadPositions = {}
    /\ i = 3
    /\ \A v \in 0..2 : NormalOf(output, v) # ZeroVec

(***************************************************************************)
(* Claims about valid meshes.                                              *)
(***************************************************************************)
IsFinite(x) == x.k = "fin"

FiniteVec(a) == IsFinite(a.x) /\ IsFinite(a.y) /\ IsFinite(a.z)

\* Equal as f32 values: the same value, or both a zero.
Same(x, y) == x = y \/ (IsZero(x) /\ IsZero(y))

SameVec(a, b) == Same(a.x, b.x) /\ Same(a.y, b.y) /\ Same(a.z, b.z)

Vertices == 0..(Len(vertices) - 1)

\* The offsets of the groups of three of idx.
Groups(idx) == {3 * g : g \in 0..((Len(idx) \div 3) - 1)}

Corners(idx, t) == {idx[t + 1], idx[t + 2], idx[t + 3]}

Degenerate(idx, t) == Cardinality(Corners(idx, t)) < 3

\* The normals a call on an empty buffer leaves.
Normals(vs, idx) == build_smooth_normals(vs, idx, << >>, checks).output

\* C1: after a call on an empty output with valid indices, in groups of
\* three, the normal of every vertex is the sum of the raw cross products of
\* the triangles it is a corner of, once per corner; an isolated triangle
\* gives its three vertices its raw normal, two triangles sharing one edge
\* give the shared vertices the sum of both and the others their own.
C1_SumOfFaceNormals ==
    pc = "done" =>
        /\ \A v \in Vertices :
              NormalOf(output, v) = CornerSum(vertices, indices, v, Len(indices))
        /\ (Len(indices) = 3 /\ ~Degenerate(indices, 0)) =>
              \A v \in Corners(indices, 0) :
                  SameVec(NormalOf(output, v), RawNormal(vertices, indices, 0))
        /\ (/\ Len(indices) = 6
            /\ ~Degenerate(indices, 0)
            /\ ~Degenerate(indices, 3)
            /\ Cardinality(Corners(indices, 0) \cap Corners(indices, 3)) = 2) =>
              /\ \A v \in Corners(indices, 0) \cap Corners(indices, 3) :
                    SameVec(NormalOf(output, v),
                            VecAdd(RawNormal(vertices, indices, 0),
                                   RawNormal(vertices, indices, 3)))
              /\ \A v \in Corners(indices, 0) \ Corners(indices, 3) :
                    SameVec(NormalOf(output, v), RawNormal(vertices, indices, 0))
              /\ \A v \in Corners(indices, 3) \ Corners(indices, 0) :
                    SameVec(NormalOf(output, v), RawNormal(vertices, indices, 3))

C1_Witness ==
    /\ pc = "done"
    /\ Len(indices) = 6
    /\ ~Degenerate(indices, 0)
    /\ ~Degenerate(indices, 3)
    /\ Cardinality(Corners(indices, 0) \cap Corners(indices, 3)) = 2
    /\ \A v \in Vertices : FiniteVec(NormalOf(output, v)) /\ NormalOf(output, v) # ZeroVec
    /\ RawNormal(vertices, indices, 0) # RawNormal(vertices, indices, 3)

\* C5: a vertex no index names keeps the zero normal, and the call returns.
C5_Unreferenced ==
    pc = "done" =>
        \A v \in Vertices :
            (\A k \in 1..Len(indices) : indices[k] # v) => NormalOf(output, v) = ZeroVec

C5_Witness ==
    /\ pc = "done"
    /\ Len(indices) = 6
    /\ \E v \in Vertices : \A k \in 1..Len(indices) : indices[k] # v
    /\ \E v \in Vertices : FiniteVec(NormalOf(output, v)) /\ NormalOf(output, v) # ZeroVec

\* The products the cross product of a and b is made of.
Products(a, b) ==
    {F32Mul(a.y, b.z), F32Mul(a.z, b.y), F32Mul(a.z, b.x),
     F32Mul(a.x, b.z), F32Mul(a.x, b.y), F32Mul(a.y, b.x)}

\* No difference and no product of the face normal of v0, v1, v2 overflows.
NoOverflow(v0, v1, v2) ==
    /\ FiniteVec(VecSub(v1, v0))
    /\ FiniteVec(VecSub(v2, v0))
    /\ \A p \in Products(VecSub(v1, v0), VecSub(v2, v0)) : IsFinite(p)

\* The second loop is at a degenerate triangle.
AtDegenerate == pc = "loop" /\ i < Len(indices) /\ Degenerate(indices, i)

\* C6 as stated: a degenerate triangle contributes zero to its vertices:
\* the step of the loop at it leaves every normal as it was.
C6_AsStated == [][AtDegenerate => output' = output]_vars

\* C6, amended: so it is when the differences of the triangle's positions
\* and their products are finite.
C6_Degenerate ==
    [][(/\ AtDegenerate
        /\ NoOverflow(vertices[indices[i + 1] + 1], vertices[indices[i + 2] + 1],
                      vertices[indices[i + 3] + 1])) => output' = output]_vars

C6_Witness ==
    /\ pc = "done"
    /\ Len(indices) = 6
    /\ ~Degenerate(indices, 0)
    /\ Degenerate(indices, 3)
    /\ indices[4] # indices[5]
    /\ NoOverflow(vertices[indices[4] + 1], vertices[indices[5] + 1], vertices[indices[6] + 1])
    /\ \A v \in Corners(indices, 0) : NormalOf(output, v) # ZeroVec

\* The scale factors tried: 2^-77, 1/2, 2 and 3.
Scales == {Fin(0, HalfMant, 0 - 100), Fin(0, HalfMant, 0 - MantBits), FromInt(2), FromInt(3)}

IsPowerOfTwo(k) == IsFinite(k) /\ k.m = HalfMant

\* a * k, as cgmath multiplies a vector by a scalar.
VecScale(a, k) == vec3(F32Mul(a.x, k), F32Mul(a.y, k), F32Mul(a.z, k))

\* The positions all multiplied by k.
Scale(vs, k) == [j \in 1..Len(vs) |-> VecScale(vs[j], k)]

\* Zero, or finite and not subnormal.
Tame(x) == IsZero(x) \/ (IsFinite(x) /\ x.m >= HalfMant)

TameVec(a) == Tame(a.x) /\ Tame(a.y) /\ Tame(a.z)

\* Whether the second loop, from the group at offset t on, leaves the tame:
\* no difference, product, face normal or sum of it overflows or is subnormal.
RECURSIVE TameFrom(_, _, _, _)
TameSums(vs, idx, out, t) ==
    /\ \A j \in 1..3 : TameVec(NormalOf(out, idx[t + j]))
    /\ TameFrom(vs, idx, out, t + 3)

TameGroup(vs, idx, out, t, a, b) ==
    /\ TameVec(a)
    /\ TameVec(b)
    /\ \A p \in Products(a, b) : Tame(p)
    /\ TameVec(cross(a, b))
    /\ TameSums(vs, idx, Accumulate(idx, out, t, 0, cross(a, b), FALSE).output, t)

TameFrom(vs, idx, out, t) ==
    IF t >= Len(idx) THEN TRUE
    ELSE TameGroup(vs, idx, out, t,
                   VecSub(vs[idx[t + 2] + 1], vs[idx[t + 1] + 1]),
                   VecSub(vs[idx[t + 3] + 1], vs[idx[t + 1] + 1]))

\* Nothing in the call on vs and idx overflows or is subnormal.
TameRun(vs, idx) ==
    /\ \A j \in 1..Len(vs) : TameVec(vs[j])
    /\ TameFrom(vs, idx, PushAll(vs, << >>), 0)

\* The normals of out are the normals of output times k, times k again.
NormalsTimes(out, k) ==
    \A v \in Vertices : NormalOf(out, v) = VecScale(VecScale(NormalOf(output, v), k), k)

\* The normals of the positions scaled by k are k*k times the normals.
ScalesAsSquare(k) == NormalsTimes(Normals(Scale(vertices, k), indices), k)

\* C7 as stated: scaling the positions by any k scales every normal by k*k.
C7_AsStated == pc = "done" => \A k \in Scales : ScalesAsSquare(k)

\* C7, amended: so it is for k a power of two, when nothing in either
\* computation overflows or is subnormal.
C7_Scaling ==
    (pc = "done" /\ TameRun(vertices, indices)) =>
        \A k \in Scales :
            (IsPowerOfTwo(k) /\ TameRun(Scale(vertices, k), indices)) => ScalesAsSquare(k)

C7_Witness ==
    /\ pc = "done"
    /\ Len(indices) = 6
    /\ \A v \in Vertices : NormalOf(output, v) # ZeroVec
    /\ TameRun(vertices, indices)
    /\ \E k \in Scales : IsPowerOfTwo(k) /\ TameRun(Scale(vertices, k), indices)
    /\ \E k \in Scales : IsPowerOfTwo(k) /\ ~TameRun(Scale(vertices, k), indices)
    /\ \E v \in Vertices : \E w \in Vertices : NormalOf(output, v) # NormalOf(output, w)

\* The lists of triangles that list idx's triangles in another order.
Reorderings(idx) ==
    {[k \in 1..Len(idx) |-> idx[3 * (f[(k + 2) \div 3] - 1) + ((k - 1) % 3) + 1]] :
        f \in {g \in [1..(Len(idx) \div 3) -> 1..(Len(idx) \div 3)] :
                  \A a, b \in 1..(Len(idx) \div 3) : g[a] = g[b] => a = b}}

\* C3 as stated: the triangles in any other order give every vertex the
\* same normal.
C3_AsStated ==
    pc = "done" =>
        \A idx \in Reorderings(indices) :
            \A v \in Vertices : NormalOf(Normals(vertices, idx), v) = NormalOf(output, v)

\* C3, amended: so it is for a mesh none of whose vertices is a corner more
\* than twice.
C3_OrderIndependent ==
    (/\ pc = "done"
     /\ \A v \in Vertices : Cardinality({k \in 1..Len(indices) : indices[k] = v}) <= 2) =>
        \A idx \in Reorderings(indices) :
            \A v \in Vertices : NormalOf(Normals(vertices, idx), v) = NormalOf(output, v)

C3_Witness ==
    /\ pc = "done"
    /\ Len(indices) = 6
    /\ \A v \in Vertices : Cardinality({k \in 1..Len(indices) : indices[k] = v}) <= 2
    /\ RawNormal(vertices, indices, 0) # RawNormal(vertices, indices, 3)
    /\ \E v \in Corners(indices, 0) \cap Corners(indices, 3) :
          /\ NormalOf(output, v) # RawNormal(vertices, indices, 0)
          /\ NormalOf(output, v) # RawNormal(vertices, indices, 3)
          /\ FiniteVec(NormalOf(output, v))

(***************************************************************************)
(* Claims about calls on a buffer that is not empty, and about the slot.   *)
(***************************************************************************)
\* What the call in progress has appended so far.
Appended == SubSeq(output, Len(entry) + 1, Len(output))

\* C8: a call leaves the entries the buffer held when it began as they
\* were, and appends two entries a vertex: the vertex, and the normal of the
\* vertex in this call's mesh.
C8_OnlyAppends ==
    /\ pc \in {"loop", "done", "panic"} => SubSeq(output, 1, Len(entry)) = entry
    /\ pc = "done" => Appended = Normals(vertices, indices)

\* C9: the slot of a corner whose index is an index of the mesh is twice the
\* index plus one, and computing it does not overflow.
C9_SlotExact ==
    /\ panic # "overflow"
    /\ pc \in {"add", "added"} =>
           /\ corner.slot.hi = 2 * corner.idx.hi + ((2 * corner.idx.lo + 1) \div Limb)
           /\ corner.slot.lo = (2 * corner.idx.lo + 1) % Limb

====
